---- MODULE Spec2Model ----
(***************************************************************************)
(* break_wall_maze.py: two level-order searches over a 0/1 grid (one from  *)
(* each corner) joined through every wall tile.  Positions are 0-based     *)
(* (row, col) pairs as in the source; a maze is a sequence of rows, so the *)
(* tile at (r, c) is maze_map[r + 1][c + 1].                               *)
(***************************************************************************)
EXTENDS Integers, Sequences, FiniteSets, TLC

VARIABLES
    maze_map,             \* argument of break_wall_maze / base_maze_solve
    boardheight,          \* len(maze_map)
    boardwidth,           \* len(maze_map[0])
    pc,                   \* position in the code
    phase,                \* which call of base_maze_solve is running
    origin,               \* parameter start of base_maze_solve
    step,                 \* local step of base_maze_solve
    open_nodes,           \* list of nodes being looked at
    next_nodes,           \* list built while a level is expanded
    closed_nodes,         \* list of nodes with final values
    i,                    \* index of the for loop over open_nodes (1-based)
    distance_from_start,  \* result of the call at line 55
    distance_from_end,    \* result of the call at line 56
    wall_nodes,           \* list of wall positions, line 60
    k,                    \* index of the for loop over wall_nodes (1-based)
    step_minimum,         \* running minimum, lines 61-84
    result,               \* value returned at line 86
    calls,                \* number of calls of break_wall_maze made so far
    first                 \* value returned by the first call

vars == <<maze_map, boardheight, boardwidth, pc, phase, origin, step,
          open_nodes, next_nodes, closed_nodes, i, distance_from_start,
          distance_from_end, wall_nodes, k, step_minimum, result, calls, first>>

\* ---------------------------------------------------------------- bounds

\* well-formed mazes have at most MaxCells tiles (any height x width)
MaxCells == 9
\* malformed inputs: at most MaxRawRows rows of at most MaxRawCols entries
MaxRawRows == 3
MaxRawCols == 3

\* ------------------------------------------------------- program constants

\* a moves tuple that lacks the downward move
moves_no_down == << <<-1, 0>>, <<0, -1>>, <<0, 1>> >>

\* a moves tuple whose last move is diagonal
moves_diagonal == << <<-1, 0>>, <<0, -1>>, <<0, 1>>, <<1, 1>> >>

\* moves=((-1,0),(0,-1),(0,1),(1,0))
moves == << <<-1, 0>>, <<0, -1>>, <<0, 1>>, <<1, 0>> >>

arbitrary_large_value == 500

\* ------------------------------------------------------------------ Node

Node(s, position) == [step |-> s, pos |-> position]

\* Node.__eq__: nodes compare by position only
NodeEq(a, b) == a.pos = b.pos

\* Python's `node in list`, which uses Node.__eq__
In(node, list) == \E j \in 1..Len(list) : NodeEq(list[j], node)

\* Python's list.index(node): the first index holding an equal node
Index(list, node) ==
    CHOOSE j \in 1..Len(list) :
        /\ NodeEq(list[j], node)
        /\ \A l \in 1..(j - 1) : ~NodeEq(list[l], node)

\* Python's min over a non-empty list of integers
Min(list) ==
    CHOOSE x \in {list[j] : j \in 1..Len(list)} :
        \A j \in 1..Len(list) : x <= list[j]

\* ------------------------------------------------------------ grid access

\* (0<=new_pos[0]<boardheight)&(0<=new_pos[1]<boardwidth)
InBoard(p, h, w) == (0 <= p[1] /\ p[1] < h) /\ (0 <= p[2] /\ p[2] < w)

\* maze_map[r][c] raises IndexError when the row is too short
IndexOk(m, p) == p[1] + 1 <= Len(m) /\ p[2] + 1 <= Len(m[p[1] + 1])

Tile(m, p) == m[p[1] + 1][p[2] + 1]

\* the test on the tile dropped: walls are entered like floor
IsFloor_any_tile(m, p) == Tile(m, p) \in {0, 1}

\* maze_map[new_pos[0]][new_pos[1]]==0
IsFloor(m, p) == Tile(m, p) = 0

Step(p, mv) == <<p[1] + mv[1], p[2] + mv[2]>>

\* start,end=(0,0),(boardheight-1,boardwidth-1)
StartPos == <<0, 0>>
\* the second search started from the first corner again
EndPos_is_start(h, w) == <<0, 0>>

EndPos(h, w) == <<h - 1, w - 1>>

\* --------------------------------------------------------- base_maze_solve

\* the membership test without next_nodes
Seen_closed_only(new_node, next, closed) == In(new_node, closed)

\* the membership test without closed_nodes
Seen_next_only(new_node, next, closed) == In(new_node, next)

\* line 39: (new_node in next_nodes) or (new_node in closed_nodes)
Seen(new_node, next, closed) == In(new_node, next) \/ In(new_node, closed)

\* lines 34-42: the loop `for pos in moves` for one node of open_nodes,
\* from move number j on; yields next_nodes as the loop leaves it
RECURSIVE ForMoves(_, _, _, _, _, _, _, _)
ForMoves(m, node, s, h, w, closed, next, j) ==
    IF j > Len(moves) THEN next
    ELSE LET new_pos == Step(node.pos, moves[j])
             new_node == Node(s, new_pos)
             appended ==
                 IF InBoard(new_pos, h, w)
                 THEN IF IsFloor(m, new_pos)
                      THEN IF Seen(new_node, next, closed)
                           THEN next
                           ELSE Append(next, new_node)
                      ELSE next
                 ELSE next
         IN  ForMoves(m, node, s, h, w, closed, appended, j + 1)

\* lines 36-37 raise IndexError when an in-board neighbour lies past the end
\* of its row (rows shorter than the first one)
RaisesIndexError(m, p, h, w) ==
    \E j \in 1..Len(moves) :
        /\ InBoard(Step(p, moves[j]), h, w)
        /\ ~IndexOk(m, Step(p, moves[j]))

\* lines 20-25: entry of base_maze_solve(maze_map, start, ...)
EnterBase(start, ph) ==
    /\ phase' = ph
    /\ origin' = start
    /\ step' = 1
    /\ open_nodes' = <<Node(1, start)>>
    /\ closed_nodes' = <<>>
    /\ next_nodes' = <<>>
    /\ i' = 1
    /\ pc' = "while"

\* lines 30-32: the while test succeeds, a new level starts
WhileTest ==
    /\ pc = "while"
    /\ Len(open_nodes) > 0
    /\ step' = step + 1
    /\ next_nodes' = <<>>
    /\ i' = 1
    /\ pc' = "for"
    /\ UNCHANGED <<maze_map, boardheight, boardwidth, phase, origin, open_nodes,
                   closed_nodes, distance_from_start, distance_from_end,
                   wall_nodes, k, step_minimum, result, calls, first>>

\* lines 33-43: one iteration of `for node in open_nodes`
ForNode ==
    /\ pc = "for"
    /\ i <= Len(open_nodes)
    /\ ~RaisesIndexError(maze_map, open_nodes[i].pos, boardheight, boardwidth)
    /\ next_nodes' = ForMoves(maze_map, open_nodes[i], step, boardheight,
                              boardwidth, closed_nodes, next_nodes, 1)
    /\ closed_nodes' = Append(closed_nodes, open_nodes[i])
    /\ i' = i + 1
    /\ UNCHANGED <<maze_map, boardheight, boardwidth, pc, phase, origin, step,
                   open_nodes, distance_from_start, distance_from_end,
                   wall_nodes, k, step_minimum, result, calls, first>>

\* lines 33-37 on a ragged maze: the subscript raises IndexError
ForNodeIndexError ==
    /\ pc = "for"
    /\ i <= Len(open_nodes)
    /\ RaisesIndexError(maze_map, open_nodes[i].pos, boardheight, boardwidth)
    /\ pc' = "IndexError"
    /\ UNCHANGED <<maze_map, boardheight, boardwidth, phase, origin, step,
                   open_nodes, next_nodes, closed_nodes, i,
                   distance_from_start, distance_from_end, wall_nodes, k,
                   step_minimum, result, calls, first>>

\* line 44: open_nodes = [node for node in next_nodes]
ForEnd ==
    /\ pc = "for"
    /\ i > Len(open_nodes)
    /\ open_nodes' = next_nodes
    /\ pc' = "while"
    /\ UNCHANGED <<maze_map, boardheight, boardwidth, phase, origin, step,
                   next_nodes, closed_nodes, i, distance_from_start,
                   distance_from_end, wall_nodes, k, step_minimum, result,
                   calls, first>>

\* lines 30 and 45 for a direct call of base_maze_solve: return(closed_nodes)
ReturnBase ==
    /\ pc = "while"
    /\ Len(open_nodes) = 0
    /\ phase = "base"
    /\ pc' = "base_returned"
    /\ UNCHANGED <<maze_map, boardheight, boardwidth, phase, origin, step,
                   open_nodes, next_nodes, closed_nodes, i,
                   distance_from_start, distance_from_end, wall_nodes, k,
                   step_minimum, result, calls, first>>

\* --------------------------------------------------------- break_wall_maze

\* the comprehension with the test on the tile dropped: every tile is listed
WallNodes_all_tiles(m, h, w) ==
    [n \in 1..(h * w) |-> Node(0, <<(n - 1) \div w, (n - 1) % w>>)]

\* line 60: Node(0, (i,j)) for i in range(boardheight)
\* for j in range(boardwidth) if maze_map[i][j]==1, in row-major order
WallNodes(m, h, w) ==
    SelectSeq([n \in 1..(h * w) |-> Node(0, <<(n - 1) \div w, (n - 1) % w>>)],
              LAMBDA node : Tile(m, node.pos) = 1)

\* line 60 raises IndexError when some row is shorter than boardwidth
Line60Raises(m, h, w) ==
    \E r \in 0..(h - 1), c \in 0..(w - 1) : ~IndexOk(m, <<r, c>>)

\* lines 67-77 for one of the two lists: [arbitrary_large_value] followed by
\* the step of every in-board floor neighbour of p that dist holds
RECURSIVE Surround(_, _, _, _, _, _, _)
Surround(m, p, h, w, dist, acc, j) ==
    IF j > Len(moves) THEN acc
    ELSE LET new_pos == Step(p, moves[j])
             new_node == Node(0, new_pos)
             appended ==
                 IF InBoard(new_pos, h, w)
                 THEN IF IsFloor(m, new_pos)
                      THEN IF In(new_node, dist)
                           THEN Append(acc, dist[Index(dist, new_node)].step)
                           ELSE acc
                      ELSE acc
                 ELSE acc
         IN  Surround(m, p, h, w, dist, appended, j + 1)

from_start(m, p, h, w, dist) ==
    Surround(m, p, h, w, dist, <<arbitrary_large_value>>, 1)

from_end(m, p, h, w, dist) ==
    Surround(m, p, h, w, dist, <<arbitrary_large_value>>, 1)

\* lines 83-84: min(from_start)+min(from_end)+1
Candidate(fs, fe) == Min(fs) + Min(fe) + 1

\* the candidate stored without the comparison
Lower_overwrite(cand, minimum) == cand

\* lines 83-84: the new step_minimum
Lower(cand, minimum) == IF cand < minimum THEN cand ELSE minimum

\* lines 48-50 and the call of line 55
Enter ==
    /\ pc = "enter"
    /\ Len(maze_map) > 0
    /\ boardwidth' = Len(maze_map[1])
    /\ boardheight' = Len(maze_map)
    /\ EnterBase(StartPos, "start")
    /\ UNCHANGED <<maze_map, distance_from_start, distance_from_end,
                   wall_nodes, k, step_minimum, result, calls, first>>

\* line 48 on a maze without rows: maze_map[0] raises IndexError
EnterIndexError ==
    /\ pc = "enter"
    /\ Len(maze_map) = 0
    /\ pc' = "IndexError"
    /\ UNCHANGED <<maze_map, boardheight, boardwidth, phase, origin, step,
                   open_nodes, next_nodes, closed_nodes, i,
                   distance_from_start, distance_from_end, wall_nodes, k,
                   step_minimum, result, calls, first>>

\* lines 30, 45 and 55-56: the first search returns, the second is called
Return55 ==
    /\ pc = "while"
    /\ Len(open_nodes) = 0
    /\ phase = "start"
    /\ distance_from_start' = closed_nodes
    /\ EnterBase(EndPos(boardheight, boardwidth), "end")
    /\ UNCHANGED <<maze_map, boardheight, boardwidth, distance_from_end,
                   wall_nodes, k, step_minimum, result, calls, first>>

\* lines 30, 45, 56 and 60-61: the second search returns
Return56 ==
    /\ pc = "while"
    /\ Len(open_nodes) = 0
    /\ phase = "end"
    /\ ~Line60Raises(maze_map, boardheight, boardwidth)
    /\ distance_from_end' = closed_nodes
    /\ wall_nodes' = WallNodes(maze_map, boardheight, boardwidth)
    /\ step_minimum' = arbitrary_large_value
    /\ k' = 1
    /\ pc' = "walls"
    /\ UNCHANGED <<maze_map, boardheight, boardwidth, phase, origin, step,
                   open_nodes, next_nodes, closed_nodes, i,
                   distance_from_start, result, calls, first>>

\* line 60 on a ragged maze: the subscript raises IndexError
Return56IndexError ==
    /\ pc = "while"
    /\ Len(open_nodes) = 0
    /\ phase = "end"
    /\ Line60Raises(maze_map, boardheight, boardwidth)
    /\ distance_from_end' = closed_nodes
    /\ pc' = "IndexError"
    /\ UNCHANGED <<maze_map, boardheight, boardwidth, phase, origin, step,
                   open_nodes, next_nodes, closed_nodes, i,
                   distance_from_start, wall_nodes, k, step_minimum, result,
                   calls, first>>

\* lines 66-84: one iteration of `for node in wall_nodes`
WallNode ==
    /\ pc = "walls"
    /\ k <= Len(wall_nodes)
    /\ step_minimum' =
           Lower(Candidate(from_start(maze_map, wall_nodes[k].pos, boardheight,
                                      boardwidth, distance_from_start),
                           from_end(maze_map, wall_nodes[k].pos, boardheight,
                                    boardwidth, distance_from_end)),
                 step_minimum)
    /\ k' = k + 1
    /\ UNCHANGED <<maze_map, boardheight, boardwidth, pc, phase, origin, step,
                   open_nodes, next_nodes, closed_nodes, i,
                   distance_from_start, distance_from_end, wall_nodes, result,
                   calls, first>>

\* line 86: return(step_minimum)
Return ==
    /\ pc = "walls"
    /\ k > Len(wall_nodes)
    /\ result' = step_minimum
    /\ pc' = "returned"
    /\ UNCHANGED <<maze_map, boardheight, boardwidth, phase, origin, step,
                   open_nodes, next_nodes, closed_nodes, i,
                   distance_from_start, distance_from_end, wall_nodes, k,
                   step_minimum, calls, first>>

\* ----------------------------------------------------------------- callers

\* the maze turned by 180 degrees: rows reversed, each row reversed
Rot180(m) ==
    [r \in 1..Len(m) |->
        [c \in 1..Len(m[Len(m) + 1 - r]) |->
            m[Len(m) + 1 - r][Len(m[Len(m) + 1 - r]) + 1 - c]]]

\* a caller solves the maze, then the same maze with the corners exchanged
CallRotated ==
    /\ pc = "returned"
    /\ calls = 1
    /\ maze_map' = Rot180(maze_map)
    /\ first' = result
    /\ calls' = 2
    /\ pc' = "enter"
    /\ UNCHANGED <<boardheight, boardwidth, phase, origin, step, open_nodes,
                   next_nodes, closed_nodes, i, distance_from_start,
                   distance_from_end, wall_nodes, k, step_minimum, result>>

\* ------------------------------------------------------------------ inputs

Rect(h, w) == [1..h -> [1..w -> {0, 1}]]

\* the rectangular 0/1 mazes of at least 1x1 and at most MaxCells tiles
Shapes == {hw \in (1..MaxCells) \X (1..MaxCells) : hw[1] * hw[2] <= MaxCells}

Mazes == UNION {Rect(hw[1], hw[2]) : hw \in Shapes}

RawRows == UNION {[1..l -> {0, 1}] : l \in 0..MaxRawCols}

\* lists of rows of any lengths, the empty list included
RawMazes == UNION {[1..n -> RawRows] : n \in 0..MaxRawRows}

WellFormed(m) ==
    /\ Len(m) >= 1
    /\ Len(m[1]) >= 1
    /\ \A r \in 1..Len(m) : Len(m[r]) = Len(m[1])

Locals ==
    /\ boardheight = 0
    /\ boardwidth = 0
    /\ phase = "none"
    /\ origin = <<0, 0>>
    /\ step = 0
    /\ open_nodes = <<>>
    /\ next_nodes = <<>>
    /\ closed_nodes = <<>>
    /\ i = 1
    /\ distance_from_start = <<>>
    /\ distance_from_end = <<>>
    /\ wall_nodes = <<>>
    /\ k = 1
    /\ step_minimum = 0
    /\ result = 0
    /\ calls = 1
    /\ first = 0

\* break_wall_maze is called on a well-formed maze
Init ==
    /\ maze_map \in Mazes
    /\ pc = "enter"
    /\ Locals

Solve ==
    \/ Enter
    \/ WhileTest
    \/ ForNode
    \/ ForEnd
    \/ Return55
    \/ Return56
    \/ WallNode
    \/ Return

Next == Solve \/ CallRotated

Spec == Init /\ [][Next]_vars

\* a solve call runs to completion: no step of it is put off for ever
FairSpec == Spec /\ WF_vars(Next)

\* break_wall_maze is called on any list of rows
InitRaw ==
    /\ maze_map \in RawMazes
    /\ pc = "enter"
    /\ Locals

NextRaw ==
    \/ Next
    \/ EnterIndexError
    \/ ForNodeIndexError
    \/ Return56IndexError

SpecRaw == InitRaw /\ [][NextRaw]_vars

\* base_maze_solve is called on a well-formed maze from any in-bounds origin
InitBase ==
    /\ maze_map \in Mazes
    /\ boardheight = Len(maze_map)
    /\ boardwidth = Len(maze_map[1])
    /\ origin \in (0..(boardheight - 1)) \X (0..(boardwidth - 1))
    /\ phase = "base"
    /\ step = 1
    /\ open_nodes = <<Node(1, origin)>>
    /\ closed_nodes = <<>>
    /\ next_nodes = <<>>
    /\ i = 1
    /\ pc = "while"
    /\ distance_from_start = <<>>
    /\ distance_from_end = <<>>
    /\ wall_nodes = <<>>
    /\ k = 1
    /\ step_minimum = 0
    /\ result = 0
    /\ calls = 1
    /\ first = 0

NextBase ==
    \/ WhileTest
    \/ ForNode
    \/ ForEnd
    \/ ReturnBase

SpecBase == InitBase /\ [][NextBase]_vars

\* a corridor of one row and len tiles, all floor but the wall tile at
\* column wall (0-based)
Corridor(len, wall) == <<[c \in 1..len |-> IF c = wall + 1 THEN 1 ELSE 0]>>

\* corridors whose only breach route has about arbitrary_large_value tiles:
\* one tile fewer, exactly as many, one more, and one whose wall lies more
\* than arbitrary_large_value steps from the start
LongMazes ==
    {Corridor(arbitrary_large_value - 1, 1),
     Corridor(arbitrary_large_value, 1),
     Corridor(arbitrary_large_value + 1, 1),
     Corridor(arbitrary_large_value + 3, arbitrary_large_value + 1)}

\* break_wall_maze is called on a small maze or on a long corridor
InitLong ==
    /\ maze_map \in Mazes \cup LongMazes
    /\ pc = "enter"
    /\ Locals

SpecLong == InitLong /\ [][Next]_vars

\* ------------------------------------------------- reference definitions
\* These state what the claims speak of (routes, reachability, distances) on
\* the grid itself, without the node lists of the program.

Positions(h, w) == (0..(h - 1)) \X (0..(w - 1))

Abs(x) == IF x < 0 THEN -x ELSE x

\* linked by one 4-directional move
Adjacent(p, q) == Abs(p[1] - q[1]) + Abs(p[2] - q[2]) = 1

Floors(m) == {p \in Positions(Len(m), Len(m[1])) : Tile(m, p) = 0}

Walls(m) == {p \in Positions(Len(m), Len(m[1])) : Tile(m, p) = 1}

\* the positions one floor-entering move away from the set ps, and ps itself
Grow(m, ps) ==
    {x : x \in ps \cup {q \in Floors(m) : \E p \in ps : Adjacent(p, q)}}

\* <<B0, B1, ..., Bn>> extending balls, where Bl is the set of positions
\* reached by at most l moves that only enter floor tiles
RECURSIVE GrowBalls(_, _, _)
GrowBalls(m, balls, n) ==
    IF n = 0 THEN balls
    ELSE CHOOSE all \in {GrowBalls(m, longer, n - 1) :
                             longer \in {Append(balls, Grow(m, balls[Len(balls)]))}} :
             TRUE

FloorBalls(m, o) == GrowBalls(m, <<{o}>>, Len(m) * Len(m[1]))

\* o itself and everything reachable from o through floor tiles
ReachIn(balls) == balls[Len(balls)]

FloorReach(m, o) == ReachIn(FloorBalls(m, o))

\* the minimum number of floor-only moves from the origin of balls to p
DistIn(balls, p) ==
    CHOOSE n \in 0..(Len(balls) - 1) :
        /\ p \in balls[n + 1]
        /\ \A l \in 0..(n - 1) : p \notin balls[l + 1]

\* one more move from the pairs <<position, wall tiles stepped on>> in ps,
\* stepping on at most one wall tile in all
BreakStep(m, ps) ==
    {x : x \in {<<q, b>> \in Positions(Len(m), Len(m[1])) \X {0, 1} :
                    \E pa \in ps : Adjacent(pa[1], q) /\ b = pa[2] + Tile(m, q)}}

\* <<R0, ..., Rn>> extending rs, where Rl holds the pairs <<position, wall
\* tiles stepped on>> of the routes of exactly l moves from the top-left tile
\* that step on at most one wall tile
RECURSIVE GrowBreaks(_, _, _)
GrowBreaks(m, rs, n) ==
    IF n = 0 THEN rs
    ELSE CHOOSE all \in {GrowBreaks(m, longer, n - 1) :
                             longer \in {Append(rs, BreakStep(m, rs[Len(rs)]))}} :
             TRUE

BreakBalls(m) ==
    GrowBreaks(m, << {<<StartPos, Tile(m, StartPos)>>} >>,
               2 * Len(m) * Len(m[1]))

AtEnd(m, rs, n) ==
    \E b \in {0, 1} : <<EndPos(Len(m), Len(m[1])), b>> \in rs[n + 1]

\* the minimum number of moves from corner to corner over all routes that
\* step on at most one wall tile; the no-solution value when there is none
\* (a shortest route never repeats a <<position, walls>> pair)
MinMovesIn(m, rs) ==
    IF \E n \in 0..(Len(rs) - 1) : AtEnd(m, rs, n)
    THEN CHOOSE n \in 0..(Len(rs) - 1) :
             AtEnd(m, rs, n) /\ \A l \in 0..(n - 1) : ~AtEnd(m, rs, l)
    ELSE arbitrary_large_value

MinMovesBreakingOne(m) == MinMovesIn(m, BreakBalls(m))

\* one more move from the pairs <<position, w visited>> in ps, staying on
\* floor tiles and the single wall tile w
WalkStep(m, w, ps) ==
    {x : x \in {<<q, v>> \in Positions(Len(m), Len(m[1])) \X BOOLEAN :
                    /\ q \in Floors(m) \cup {w}
                    /\ \E pa \in ps : /\ Adjacent(pa[1], q)
                                      /\ v = (pa[2] \/ q = w)}}

RECURSIVE WalkAfter(_, _, _, _)
WalkAfter(m, w, ps, n) ==
    IF n = 0 THEN ps
    ELSE CHOOSE all \in {WalkAfter(m, w, further, n - 1) :
                             further \in {WalkStep(m, w, ps)}} :
             TRUE

\* there is a route of exactly `tiles` tiles (tiles - 1 moves, the 1-based
\* step count of the program) from the top-left to the bottom-right tile
\* that steps on the wall tile w and otherwise only on floor tiles
RouteThrough(m, w, tiles) ==
    /\ tiles >= 1
    /\ StartPos \in Floors(m) \cup {w}
    /\ <<EndPos(Len(m), Len(m[1])), TRUE>>
           \in WalkAfter(m, w, {<<StartPos, StartPos = w>>}, tiles - 1)

RouteWithOneWall(m, tiles) == \E w \in Walls(m) : RouteThrough(m, w, tiles)

\* wall tile w has a floor neighbour in the region rs
Touches(m, w, rs) == \E q \in rs \cap Floors(m) : Adjacent(w, q)

\* no wall tile has both a floor neighbour reachable from the top-left corner
\* and a floor neighbour reachable from the bottom-right corner
NoBreach(m) ==
    \A rs \in {FloorReach(m, StartPos)},
       re \in {FloorReach(m, EndPos(Len(m), Len(m[1])))} :
        \A w \in Walls(m) : ~(Touches(m, w, rs) /\ Touches(m, w, re))

Positions_of(list) == {list[j].pos : j \in 1..Len(list)}

\* no two nodes of the list are equal under Node.__eq__
NoRepeat(list) ==
    \A a, b \in 1..Len(list) : NodeEq(list[a], list[b]) => a = b

\* the nodes of open_nodes the for loop has not expanded yet
Pending ==
    IF pc = "for" THEN SubSeq(open_nodes, i, Len(open_nodes)) ELSE open_nodes

InSearch == pc \in {"while", "for", "base_returned"}

\* ------------------------------------------------------------------ claims

\* C1: for every rectangular maze, break_wall_maze returns the minimum number
\* of 4-directional moves from the top-left to the bottom-right corner over
\* all routes that step on at most one wall tile.
C1_MinimumMoves ==
    pc = "returned" =>
        \A rs \in {BreakBalls(maze_map)} : result = MinMovesIn(maze_map, rs)

\* C2: the list base_maze_solve returns holds position p exactly when p is
\* the origin or reachable from it by moves that only enter floor tiles, and
\* the step of p is the minimum number of such moves plus 1.
C2_Distances ==
    pc = "base_returned" =>
        \A balls \in {FloorBalls(maze_map, origin)} :
            /\ {closed_nodes[j].pos : j \in 1..Len(closed_nodes)}
                   = ReachIn(balls)
            /\ \A j \in 1..Len(closed_nodes) :
                   closed_nodes[j].step
                       = DistIn(balls, closed_nodes[j].pos) + 1

\* a search from a wall origin that reached a tile two moves away and left
\* some floor tile unreached
C2_Witness ==
    /\ pc = "base_returned"
    /\ Tile(maze_map, origin) = 1
    /\ \E j \in 1..Len(closed_nodes) : closed_nodes[j].step = 3
    /\ \E p \in Floors(maze_map) :
           \A j \in 1..Len(closed_nodes) : closed_nodes[j].pos # p

\* C3: for every maze without any wall tile break_wall_maze returns the
\* no-solution value arbitrary_large_value, not the length of the floor path.
C3_NoWallNoSolution ==
    (pc = "returned" /\ Walls(maze_map) = {}) => result = arbitrary_large_value

\* an all-floor maze of at least 2x2 tiles has been solved
C3_Witness ==
    /\ pc = "returned"
    /\ Walls(maze_map) = {}
    /\ boardheight >= 2 /\ boardwidth >= 2
    /\ EndPos(boardheight, boardwidth) \in FloorReach(maze_map, StartPos)
    /\ result = arbitrary_large_value

\* C4: a malformed maze (no rows, no columns, rows of unequal lengths) makes
\* break_wall_maze end in InvalidMazeError: it never returns an integer and
\* never ends in any other way.
C4_InvalidMazeError ==
    ~WellFormed(maze_map) => pc \notin {"returned", "IndexError"}

\* C5: solving the maze with the two corners exchanged (the maze turned by
\* 180 degrees) yields the same value as the original call.
C5_Symmetry ==
    (pc = "returned" /\ calls = 2) => result = first

\* both calls returned a route length on a maze that differs from its rotation
C5_Witness ==
    /\ pc = "returned"
    /\ calls = 2
    /\ maze_map # Rot180(maze_map)
    /\ Tile(maze_map, StartPos) = 0
    /\ Tile(maze_map, EndPos(boardheight, boardwidth)) = 0
    /\ result < arbitrary_large_value
    /\ first < arbitrary_large_value

\* C6: in the list base_maze_solve returns, two 4-directionally adjacent
\* positions that are both present have steps that differ by exactly 1.
C6_AdjacentStepsDifferByOne ==
    pc = "base_returned" =>
        \A a, b \in 1..Len(closed_nodes) :
            Adjacent(closed_nodes[a].pos, closed_nodes[b].pos)
                => Abs(closed_nodes[a].step - closed_nodes[b].step) = 1

\* a returned list of at least four nodes, two of them adjacent at steps 2, 3
C6_Witness ==
    /\ pc = "base_returned"
    /\ Len(closed_nodes) >= 4
    /\ \E a, b \in 1..Len(closed_nodes) :
           /\ Adjacent(closed_nodes[a].pos, closed_nodes[b].pos)
           /\ closed_nodes[a].step = 2
           /\ closed_nodes[b].step = 3

\* C7: when no wall tile has both a floor neighbour reachable from the
\* top-left corner and one reachable from the bottom-right corner,
\* break_wall_maze returns arbitrary_large_value; and a wall tile whose
\* minimum of from_start or of from_end is the sentinel never lowers
\* step_minimum.
C7_NoBreachNoSolution ==
    /\ [](pc = "returned" /\ NoBreach(maze_map)
              => result = arbitrary_large_value)
    /\ [][(/\ pc = "walls"
           /\ k <= Len(wall_nodes)
           /\ \/ Min(from_start(maze_map, wall_nodes[k].pos, boardheight,
                                boardwidth, distance_from_start))
                     = arbitrary_large_value
              \/ Min(from_end(maze_map, wall_nodes[k].pos, boardheight,
                              boardwidth, distance_from_end))
                     = arbitrary_large_value)
              => step_minimum' = step_minimum]_vars

\* a maze with a wall tile next to the start region only has been solved
C7_Witness ==
    /\ pc = "returned"
    /\ NoBreach(maze_map)
    /\ \E w \in Walls(maze_map) :
           Touches(maze_map, w, FloorReach(maze_map, StartPos))
    /\ Tile(maze_map, StartPos) = 0
    /\ Tile(maze_map, EndPos(boardheight, boardwidth)) = 0
    /\ result = arbitrary_large_value

\* C8: a value below arbitrary_large_value is the length (in tiles, the
\* 1-based step count) of a route from the top-left to the bottom-right tile
\* that steps on exactly one wall tile and otherwise only on floor tiles, in
\* every maze, those with a wall corner included.
C8_RouteWithOneWall ==
    (pc = "returned" /\ result < arbitrary_large_value)
        => RouteWithOneWall(maze_map, result)

\* C9 as stated: in every state of a search no position occurs more than once
\* across closed_nodes, open_nodes and next_nodes together.
C9_NoRepeatAcrossLists ==
    InSearch => NoRepeat(closed_nodes \o open_nodes \o next_nodes)

\* C9 as amended: no position occurs twice within closed_nodes, within
\* open_nodes or within next_nodes; closed_nodes, the nodes of open_nodes not
\* yet expanded and (while a level is expanded) next_nodes share no position;
\* the step of a position never changes; the returned list holds each
\* position at most once.
C9_OnePositionOnce ==
    /\ [](InSearch =>
              /\ NoRepeat(closed_nodes)
              /\ NoRepeat(open_nodes)
              /\ NoRepeat(next_nodes)
              /\ NoRepeat(closed_nodes \o Pending)
              /\ pc = "for" => NoRepeat(closed_nodes \o Pending \o next_nodes))
    /\ [][\A a \in 1..Len(closed_nodes \o open_nodes \o next_nodes),
             b \in 1..Len(closed_nodes' \o open_nodes' \o next_nodes') :
              NodeEq((closed_nodes \o open_nodes \o next_nodes)[a],
                     (closed_nodes' \o open_nodes' \o next_nodes')[b])
                  => (closed_nodes \o open_nodes \o next_nodes)[a].step
                         = (closed_nodes' \o open_nodes' \o next_nodes')[b].step
        ]_vars

\* a level of two nodes has been expanded and both found the same floor tile:
\* the second discovery was discarded
C9_Witness ==
    /\ pc = "for"
    /\ i > Len(open_nodes)
    /\ Len(open_nodes) >= 2
    /\ \E j \in 1..Len(next_nodes) :
           /\ Adjacent(next_nodes[j].pos, open_nodes[1].pos)
           /\ Adjacent(next_nodes[j].pos, open_nodes[2].pos)

\* C10: break_wall_maze terminates on every well-formed maze: both calls of
\* the caller return, and a search starts at most one level per floor tile
\* plus one (step counts the levels started, from 1).
C10_Terminates ==
    /\ <>(pc = "returned" /\ calls = 2)
    /\ [](pc \in {"while", "for"}
              => step - 1 <= Cardinality(Floors(maze_map)) + 1)

\* a solve has returned whose last search started one level per floor tile
\* plus one
C10_Witness ==
    /\ pc = "returned"
    /\ calls = 2
    /\ Cardinality(Floors(maze_map)) >= 2
    /\ step - 1 = Cardinality(Floors(maze_map)) + 1

\* the least element of a non-empty set of integers
SetMin(xs) == CHOOSE x \in xs : \A y \in xs : x <= y

\* the steps the distance list holds for the floor neighbours of wall tile w
NearSteps(m, w, dist) ==
    {dist[j].step : j \in {l \in 1..Len(dist) :
                               /\ Adjacent(dist[l].pos, w)
                               /\ dist[l].pos \in Floors(m)}}

\* minStart / minEnd of wall tile w: the least step the search found for a
\* floor neighbour of w, however large; the placeholder only when the search
\* reached no floor neighbour of w
MinNear(m, w, dist) ==
    IF NearSteps(m, w, dist) = {} THEN arbitrary_large_value
    ELSE SetMin(NearSteps(m, w, dist))

\* minStart(w) + minEnd(w) + 1: when both searches reached w, the number of
\* tiles of the shortest route they measure through w
BreachCost(m, w, ds, de) == MinNear(m, w, ds) + MinNear(m, w, de) + 1

\* both searches reached a floor neighbour of wall tile w
Breached(m, w, ds, de) ==
    NearSteps(m, w, ds) # {} /\ NearSteps(m, w, de) # {}

\* dist holds the true grid distances from o: o itself at step 1, no position
\* twice, every other node a floor tile one step after an adjacent node, and
\* every floor neighbour of a node present at most one step later
TrueDistances(m, o, dist) ==
    /\ Len(dist) >= 1
    /\ dist[1] = Node(1, o)
    /\ NoRepeat(dist)
    /\ \A a \in 2..Len(dist) :
           /\ dist[a].pos \in Floors(m)
           /\ \E b \in 1..Len(dist) : /\ Adjacent(dist[a].pos, dist[b].pos)
                                      /\ dist[b].step = dist[a].step - 1
    /\ \A a \in 1..Len(dist) :
           \A q \in {p \in Floors(m) : Adjacent(dist[a].pos, p)} :
               \E b \in 1..Len(dist) : /\ dist[b].pos = q
                                       /\ dist[b].step <= dist[a].step + 1

\* C11: the value returned equals min(S, min over the wall tiles w of
\* minStart(w) + minEnd(w) + 1) with S = arbitrary_large_value, where the two
\* distance lists hold the true grid distances; so it never exceeds S, is
\* never below 3, and a wall tile that both searches reached but whose route
\* has S or more tiles is handled like an unreachable one: it never lowers
\* step_minimum, and the value returned is the minimum over the reached tiles
\* of fewer than S tiles only (S when there is none).
C11_MinOverWalls ==
    /\ [](pc = "returned" =>
              /\ TrueDistances(maze_map, StartPos, distance_from_start)
              /\ TrueDistances(maze_map, EndPos(boardheight, boardwidth),
                               distance_from_end)
              /\ result = SetMin({arbitrary_large_value} \cup
                                 {BreachCost(maze_map, w, distance_from_start,
                                             distance_from_end) :
                                      w \in Walls(maze_map)})
              /\ result <= arbitrary_large_value
              /\ result >= 3
              /\ (\A w \in Walls(maze_map) :
                      Breached(maze_map, w, distance_from_start,
                               distance_from_end)
                          => BreachCost(maze_map, w, distance_from_start,
                                        distance_from_end)
                                 >= arbitrary_large_value)
                     => result = arbitrary_large_value)
    /\ [][(/\ pc = "walls"
           /\ k <= Len(wall_nodes)
           /\ Breached(maze_map, wall_nodes[k].pos, distance_from_start,
                       distance_from_end)
           /\ BreachCost(maze_map, wall_nodes[k].pos, distance_from_start,
                         distance_from_end) >= arbitrary_large_value)
              => step_minimum' = step_minimum]_vars

\* a solved maze with a wall tile that both searches reached, one of them
\* at a step above the placeholder: its route has more than S tiles and the
\* value returned is S, the no-solution value
C11_Witness ==
    /\ pc = "returned"
    /\ result = arbitrary_large_value
    /\ \E w \in Walls(maze_map) :
           /\ Breached(maze_map, w, distance_from_start, distance_from_end)
           /\ MinNear(maze_map, w, distance_from_start) > arbitrary_large_value
           /\ MinNear(maze_map, w, distance_from_end) < arbitrary_large_value
           /\ BreachCost(maze_map, w, distance_from_start, distance_from_end)
                  > arbitrary_large_value

====
